---- MODULE Spec2Model ----
(***************************************************************************)
(* robust_email_scraper.py: a two-level crawler.  The seed loop visits     *)
(* every parent URL with one browser session, merges the emails found and  *)
(* collects the same-domain links; the links that are no seeds are then    *)
(* scraped by a thread pool, one fresh session per task, and the merged    *)
(* set of emails is written sorted.                                        *)
(*                                                                         *)
(* Strings are sequences of one-character strings, so that startswith,     *)
(* split, the substring test and the regular expression are computed.      *)
(***************************************************************************)
EXTENDS Integers, Sequences, FiniteSets, TLC

\* ------------------------------------------------------------ bounds
\* Longest text handed to extract_emails on its own.
MaxTextLen == 7

\* Longest list of seed lines read from the input file.
MaxSeeds == 2

\* Size of the thread pool.  The repository configures 4; the model runs a
\* smaller pool over fewer links so that the pool still saturates.
max_workers == 2

\* ------------------------------------------------------------ strings
Max(S) == CHOOSE x \in S : \A y \in S : y <= x

Lower == {"a","b","c","d","e","f","g","h","i","j","k","l","m",
          "n","o","p","q","r","s","t","u","v","w","x","y","z"}
Upper == {"A","B","C","D","E","F","G","H","I","J","K","L","M",
          "N","O","P","Q","R","S","T","U","V","W","X","Y","Z"}
Digit == {"0","1","2","3","4","5","6","7","8","9"}
Alpha == Lower \cup Upper

\* [a-zA-Z0-9._%+-]
LocalChars == Alpha \cup Digit \cup {".", "_", "%", "+", "-"}
\* [a-zA-Z0-9.-]
DomainChars == Alpha \cup Digit \cup {".", "-"}

\* str.startswith
startswith(s, p) == Len(s) >= Len(p) /\ SubSeq(s, 1, Len(p)) = p

\* The positions at which sub occurs in s.
Occurrences(s, sub) ==
    {i \in 1..(Len(s) - Len(sub) + 1) : SubSeq(s, i, i + Len(sub) - 1) = sub}

\* `sub in s` on strings
Contains(s, sub) == Occurrences(s, sub) # {}

\* str.split(sep), sep non-empty: the list of the parts between the
\* occurrences of sep, taken left to right.
RECURSIVE split(_, _)
split(s, sep) ==
    IF Occurrences(s, sep) = {} THEN <<s>>
    ELSE LET i == CHOOSE k \in Occurrences(s, sep) :
                      \A m \in Occurrences(s, sep) : k <= m
         IN  <<SubSeq(s, 1, i - 1)>> \o split(SubSeq(s, i + Len(sep), Len(s)), sep)

\* The elements of a list, as a set.
Range(s) == {s[i] : i \in 1..Len(s)}

\* ------------------------------------------------------------ extract_emails
\* The last index of the longest run of characters of cls that starts at i
\* (i - 1 when text[i] is not in cls): a greedy cls* .
RunEnd(text, i, cls) ==
    Max({j \in (i - 1)..Len(text) : \A k \in i..j : text[k] \in cls})

\* The pattern with a top-level domain of one or more letters, {1,}.
MatchAtShortTld(text, s) ==
    LET p    == RunEnd(text, s, LocalChars)
        at   == p + 1
        q    == RunEnd(text, at + 1, DomainChars)
        dots == {e \in (at + 2)..q :
                    text[e] = "." /\ RunEnd(text, e + 1, Alpha) >= e + 1}
    IN  IF p >= s /\ at <= Len(text) /\ text[at] = "@" /\ dots # {}
        THEN RunEnd(text, Max(dots) + 1, Alpha)
        ELSE 0

\* re.match of the pattern at position s: the index of the last character
\* of the match, 0 when the pattern does not match there.  The local part
\* is the greedy run (the next character must be "@", which is not a local
\* character); the domain is greedy and gives back characters until a "."
\* followed by two or more letters is found, so the last such "." wins.
MatchAt(text, s) ==
    LET p    == RunEnd(text, s, LocalChars)
        at   == p + 1
        q    == RunEnd(text, at + 1, DomainChars)
        dots == {e \in (at + 2)..q :
                    text[e] = "." /\ RunEnd(text, e + 1, Alpha) >= e + 2}
    IN  IF p >= s /\ at <= Len(text) /\ text[at] = "@" /\ dots # {}
        THEN RunEnd(text, Max(dots) + 1, Alpha)
        ELSE 0

\* The pattern with a lookahead for a letter after the top-level domain,
\* \.[a-zA-Z]{2,}(?=[a-zA-Z]): a match ends one letter before the end of
\* a run of three or more letters.
RECURSIVE FindAllFromBeforeLetter(_, _)
FindAllFromBeforeLetter(text, pos) ==
    LET End(s) ==
            LET p    == RunEnd(text, s, LocalChars)
                at   == p + 1
                q    == RunEnd(text, at + 1, DomainChars)
                dots == {e \in (at + 2)..q :
                            text[e] = "." /\ RunEnd(text, e + 1, Alpha) >= e + 3}
            IN  IF p >= s /\ at <= Len(text) /\ text[at] = "@" /\ dots # {}
                THEN RunEnd(text, Max(dots) + 1, Alpha) - 1
                ELSE 0
        starts == {s \in pos..Len(text) : End(s) # 0}
    IN  IF starts = {} THEN <<>>
        ELSE LET s == CHOOSE x \in starts : \A y \in starts : x <= y
             IN  <<SubSeq(text, s, End(s))>>
                     \o FindAllFromBeforeLetter(text, End(s) + 1)

\* re.findall from position pos on: the leftmost match, then the matches
\* of the text after it.
RECURSIVE FindAllFrom(_, _)
FindAllFrom(text, pos) ==
    LET starts == {s \in pos..Len(text) : MatchAt(text, s) # 0}
    IN  IF starts = {} THEN <<>>
        ELSE LET s == CHOOSE x \in starts : \A y \in starts : x <= y
                 e == MatchAt(text, s)
             IN  <<SubSeq(text, s, e)>> \o FindAllFrom(text, e + 1)

extract_emails(text) == FindAllFrom(text, 1)

\* ------------------------------------------------------------ sorted
\* The characters in the order of their code points (the ones that occur).
CodeOrder ==
    <<"%", "+", ",", "-", ".", "/",
      "0", "1", "2", "3", "4", "5", "6", "7", "8", "9", ":", "@",
      "A", "B", "C", "D", "E", "F", "G", "H", "I", "J", "K", "L", "M",
      "N", "O", "P", "Q", "R", "S", "T", "U", "V", "W", "X", "Y", "Z", "_",
      "a", "b", "c", "d", "e", "f", "g", "h", "i", "j", "k", "l", "m",
      "n", "o", "p", "q", "r", "s", "t", "u", "v", "w", "x", "y", "z">>

ord(c) == CHOOSE i \in 1..Len(CodeOrder) : CodeOrder[i] = c

\* a < b on strings: by the first character that differs, a proper prefix
\* before the longer string.
StrLess(a, b) ==
    \E i \in 1..Len(b) :
        /\ i <= Len(a) + 1
        /\ \A k \in 1..(i - 1) : a[k] = b[k]
        /\ (i = Len(a) + 1 \/ ord(a[i]) < ord(b[i]))

\* The emails written largest first, as sorted(..., reverse=True) would.
RECURSIVE sortedDescending(_)
sortedDescending(S) ==
    IF S = {} THEN <<>>
    ELSE LET m == CHOOSE x \in S : \A y \in S \ {x} : StrLess(y, x)
         IN  <<m>> \o sortedDescending(S \ {m})

\* sorted(S) of a set of strings
RECURSIVE sorted(_)
sorted(S) ==
    IF S = {} THEN <<>>
    ELSE LET m == CHOOSE x \in S : \A y \in S \ {x} : StrLess(x, y)
         IN  <<m>> \o sorted(S \ {m})

\* ------------------------------------------------------------ the web
\* What the browser shows for each URL: the rendered source and the href
\* attributes of the <a> elements, in document order.
HTTP == <<"h", "t", "t", "p", ":", "/", "/">>

UrlS == HTTP \o <<"a", "/", "s">>
UrlT == HTTP \o <<"a", "/", "t">>
Url1 == HTTP \o <<"a", "/", "1">>
Url2 == HTTP \o <<"b", "a", "/", "2">>
Url9 == HTTP \o <<"a", "/", "9">>
UrlB == HTTP \o <<"b", "/", "x">>

MailX  == <<"x", "@", "y", ".", "c", "c">>
MailXU == <<"X", "@", "y", ".", "c", "c">>
MailZ  == <<"z", "@", "y", ".", "c", "c">>
MailW  == <<"w", "@", "y", ".", "c", "c">>

\* driver.page_source after driver.get(url)
page_source(url) ==
    CASE url = UrlS -> MailX \o <<",">> \o MailZ
      [] url = UrlT -> MailZ \o <<"@", "q">>
      [] url = Url1 -> <<"w", ":">> \o MailW
      [] url = Url2 -> MailXU \o <<".">>
      [] OTHER      -> <<>>

\* a.get_attribute("href") of the elements found by find_elements
page_hrefs(url) ==
    CASE url = UrlS -> <<UrlT, Url1, <<>>, Url1, UrlS, UrlB, Url2>>
      [] url = UrlT -> <<UrlS>>
      [] url = Url1 -> <<Url9>>
      [] OTHER      -> <<>>

\* The lines of the input file (stripped, non-blank): a bare host with a
\* path, a URL with its scheme, and a bare host whose name begins "http".
LineBare     == <<"a", "/", "s">>
LineHttp     == UrlT
LineHttpHost == <<"h", "t", "t", "p", "b">>
SeedLines    == {LineBare, LineHttp, LineHttpHost}

\* The URLs a seed line or a link of the model can name.
Links   == {UrlS, UrlT, Url1, Url2, Url9, UrlB}
AllUrls == Links \cup SeedLines \cup {HTTP \o l : l \in SeedLines}

\* How a call into the browser ends: normally, with a WebDriverException,
\* or with an exception of another class.
Outcomes == {"ok", "wde", "exc"}

\* ------------------------------------------------------------ state
VARIABLES
    parent_urls,      \* the seed lines read from the input file
    idx,              \* position of the seed loop in parent_urls
    pc,               \* the statement the main thread is at
    parent_url,       \* the seed being processed, after the scheme repair
    parent_domain,    \* its host
    visited_links,    \* the seeds seen so far
    all_emails,       \* the emails merged so far
    child_links,      \* the links get_child_links returned for the seed
    child_links_all,  \* the links collected, then the links to crawl
    drivers,          \* the browser sessions created: what was loaded, quits
    work_queue,       \* the pool's queue of submitted, not yet started tasks
    futures,          \* the submitted tasks: state, result or exception
    collected,        \* the tasks whose future the as_completed loop handled
    output_rows,      \* the rows written to the output file
    page_text,        \* the text handed to extract_emails on its own
    emails            \* what extract_emails returned for it

vars == <<parent_urls, idx, pc, parent_url, parent_domain, visited_links,
          all_emails, child_links, child_links_all, drivers, work_queue, futures,
          collected, output_rows, page_text, emails>>

\* A function extended by one argument.
Put(f, k, v) == [x \in DOMAIN f \cup {k} |-> IF x = k THEN v ELSE f[x]]

\* The session the seed loop creates for seed i, the one a task creates.
SeedDriver(i)  == <<"seed", i>>
ChildDriver(u) == <<"child", u>>

\* create_driver(): a session that has loaded nothing and was not quit.
create_driver(url) == [url |-> url, gets |-> <<>>, quits |-> 0]

\* The sessions that were created and not quit.
OpenDrivers == {d \in DOMAIN drivers : drivers[d].quits = 0}

\* ------------------------------------------------------------ helpers
\* extract_emails(driver.page_source) for every URL of the model, computed
\* once.
Extracted == [u \in AllUrls |-> extract_emails(page_source(u))]

\* scrape_page, given how the try block ends: the matches of the page
\* source, [] on a WebDriverException.  Another exception leaves the
\* function; the caller's action handles it.
scrape_page(url, o) ==
    IF o = "ok" THEN Extracted[url] ELSE <<>>

\* The first occurrences of a list, in order.
RECURSIVE Dedup(_)
Dedup(l) ==
    IF l = <<>> THEN <<>>
    ELSE IF l[Len(l)] \in Range(SubSeq(l, 1, Len(l) - 1))
         THEN Dedup(SubSeq(l, 1, Len(l) - 1))
         ELSE Append(Dedup(SubSeq(l, 1, Len(l) - 1)), l[Len(l)])

\* The test of get_child_links on one href.
KeepLink(href, url, domain) ==
    href # <<>> /\ Contains(href, domain) /\ href # url

\* get_child_links, given how the try block ends: the hrefs kept, once
\* each; [] on a WebDriverException.
get_child_links(url, domain, o) ==
    IF o = "ok"
    THEN Dedup(SelectSeq(page_hrefs(url), LAMBDA h : KeepLink(h, url, domain)))
    ELSE <<>>

\* The scheme repair of the seed loop.
NormalizeSeed(line) ==
    IF ~startswith(line, <<"h", "t", "t", "p">>) THEN HTTP \o line ELSE line

\* parent_url.split("//")[1].split("/")[0]; the first index raises
\* IndexError when the URL holds no "//".
DomainRaises(url) == Len(split(url, <<"/", "/">>)) < 2
DomainOf(url) == split(split(url, <<"/", "/">>)[2], <<"/">>)[1]

\* Line 105 without its visited test.
RemoveVisitedKeepsSeeds(links, visited) == Dedup(links)

\* Line 105 without set(): the visited test alone.
RemoveVisitedKeepsDuplicates(links, visited) ==
    SelectSeq(links, LAMBDA l : l \notin visited)

\* [link for link in set(child_links_all) if link not in visited_links]
RemoveVisited(links, visited) ==
    SelectSeq(Dedup(links), LAMBDA l : l \notin visited)

\* ------------------------------------------------------------ Init
Init ==
    /\ parent_urls \in UNION {[1..n -> SeedLines] : n \in 0..MaxSeeds}
    /\ idx = 1
    /\ pc = "loop"
    /\ parent_url = <<>>
    /\ parent_domain = <<>>
    /\ visited_links = {}
    /\ all_emails = {}
    /\ child_links = <<>>
    /\ child_links_all = <<>>
    /\ drivers = <<>>
    /\ work_queue = <<>>
    /\ futures = <<>>
    /\ collected = {}
    /\ output_rows = <<>>
    /\ page_text = <<>>
    /\ emails = <<>>

\* ------------------------------------------------------------ the seed loop
\* Lines 85-89: take the next seed, repair its scheme, mark it visited.
SeedNormalize ==
    /\ pc = "loop"
    /\ idx <= Len(parent_urls)
    /\ parent_url' = NormalizeSeed(parent_urls[idx])
    /\ visited_links' = visited_links \cup {NormalizeSeed(parent_urls[idx])}
    /\ pc' = "create"
    /\ UNCHANGED <<page_text, emails, child_links, parent_urls, idx, parent_domain, all_emails,
                   child_links_all, drivers, work_queue, futures, collected,
                   output_rows>>

\* Line 91: driver = create_driver()
SeedCreateDriver ==
    /\ pc = "create"
    /\ drivers' = Put(drivers, SeedDriver(idx), create_driver(parent_url))
    /\ pc' = "scrape"
    /\ UNCHANGED <<page_text, emails, child_links, parent_urls, idx, parent_url, parent_domain, visited_links,
                   all_emails, child_links_all, work_queue, futures, collected,
                   output_rows>>

\* A seed loop that goes on to the next seed when the scrape failed,
\* without the links step.
SeedScrapeSkipsLinksOnFailure ==
    /\ pc = "scrape"
    /\ \E o \in Outcomes :
        /\ drivers' = [drivers EXCEPT ![SeedDriver(idx)].gets = Append(@, o)]
        /\ IF o = "exc"
           THEN pc' = "crashed" /\ UNCHANGED all_emails
           ELSE /\ pc' = IF o = "wde" THEN "quit" ELSE "domain"
                /\ all_emails' = all_emails \cup Range(scrape_page(parent_url, o))
    /\ UNCHANGED <<page_text, emails, child_links, parent_urls, idx, parent_url,
                   parent_domain, visited_links, child_links_all, work_queue,
                   futures, collected, output_rows>>

\* Lines 93-95: emails = scrape_page(driver, parent_url), merged.  An
\* exception that is no WebDriverException is caught nowhere and ends the
\* program.
SeedScrape ==
    /\ pc = "scrape"
    /\ \E o \in Outcomes :
        /\ drivers' = [drivers EXCEPT ![SeedDriver(idx)].gets = Append(@, o)]
        /\ IF o = "exc"
           THEN pc' = "crashed" /\ UNCHANGED all_emails
           ELSE /\ pc' = "domain"
                /\ all_emails' = all_emails \cup Range(scrape_page(parent_url, o))
    /\ UNCHANGED <<page_text, emails, child_links, parent_urls, idx, parent_url, parent_domain, visited_links,
                   child_links_all, work_queue, futures, collected, output_rows>>

\* Line 98: parent_domain = parent_url.split("//")[1].split("/")[0]
SeedDomain ==
    /\ pc = "domain"
    /\ IF DomainRaises(parent_url)
       THEN pc' = "crashed" /\ UNCHANGED parent_domain
       ELSE pc' = "links" /\ parent_domain' = DomainOf(parent_url)
    /\ UNCHANGED <<page_text, emails, child_links, parent_urls, idx, parent_url, visited_links, all_emails,
                   child_links_all, drivers, work_queue, futures, collected,
                   output_rows>>

\* Lines 99-101: child_links = get_child_links(...), which loads the page
\* again; child_links_all.extend(child_links)
SeedLinks ==
    /\ pc = "links"
    /\ \E o \in Outcomes :
        /\ drivers' = [drivers EXCEPT ![SeedDriver(idx)].gets = Append(@, o)]
        /\ IF o = "exc"
           THEN pc' = "crashed" /\ UNCHANGED <<child_links, child_links_all>>
           ELSE /\ pc' = "quit"
                /\ child_links' = get_child_links(parent_url, parent_domain, o)
                /\ child_links_all' =
                       child_links_all \o get_child_links(parent_url, parent_domain, o)
    /\ UNCHANGED <<page_text, emails, parent_urls, idx, parent_url, parent_domain, visited_links,
                   all_emails, work_queue, futures, collected, output_rows>>

\* Line 102: driver.quit(), and on to the next seed.
SeedQuit ==
    /\ pc = "quit"
    /\ drivers' = [drivers EXCEPT ![SeedDriver(idx)].quits = @ + 1]
    /\ idx' = idx + 1
    /\ pc' = "loop"
    /\ UNCHANGED <<page_text, emails, child_links, parent_urls, parent_url, parent_domain, visited_links,
                   all_emails, child_links_all, work_queue, futures, collected,
                   output_rows>>

\* ------------------------------------------------------------ the pool
\* Line 105, reached when the seed loop has run out of seeds.
Filter ==
    /\ pc = "loop"
    /\ idx > Len(parent_urls)
    /\ child_links_all' = RemoveVisited(child_links_all, visited_links)
    /\ pc' = "parallel"
    /\ UNCHANGED <<page_text, emails, child_links, parent_urls, idx, parent_url, parent_domain, visited_links,
                   all_emails, drivers, work_queue, futures, collected,
                   output_rows>>

\* The links of child_links_all that have no future yet.
Unsubmitted == Range(child_links_all) \ DOMAIN futures

\* The tasks a pool thread is running.
Running == {u \in DOMAIN futures : futures[u].state \in {"running", "scraped"}}

\* The submit of line 110 moved into the seed loop: a link is submitted as
\* soon as it is collected.
SubmitInSeedLoop(u) ==
    /\ pc \in {"loop", "create", "scrape", "domain", "links", "quit", "parallel"}
    /\ u \in Unsubmitted
    /\ futures' = Put(futures, u, [state |-> "pending", result |-> <<>>,
                                   exception |-> FALSE])
    /\ work_queue' = Append(work_queue, u)
    /\ UNCHANGED <<page_text, emails, child_links, parent_urls, idx, pc, parent_url, parent_domain,
                   visited_links, all_emails, child_links_all, drivers,
                   collected, output_rows>>

\* Line 110, one iteration: executor.submit(scrape_worker, url).  The list
\* was built from a set, so any link not yet submitted may be the next.
Submit(u) ==
    /\ pc = "parallel"
    /\ u \in Unsubmitted
    /\ futures' = Put(futures, u, [state |-> "pending", result |-> <<>>,
                                   exception |-> FALSE])
    /\ work_queue' = Append(work_queue, u)
    /\ UNCHANGED <<page_text, emails, child_links, parent_urls, idx, pc, parent_url, parent_domain,
                   visited_links, all_emails, child_links_all, drivers,
                   collected, output_rows>>

\* A pool thread takes the oldest queued task; scrape_worker line 66:
\* driver = create_driver().  At most max_workers threads exist.
WorkerStart ==
    /\ work_queue # <<>>
    /\ Cardinality(Running) < max_workers
    /\ LET u == Head(work_queue)
       IN  /\ futures' = [futures EXCEPT ![u].state = "running"]
           /\ drivers' = Put(drivers, ChildDriver(u), create_driver(u))
    /\ work_queue' = Tail(work_queue)
    /\ UNCHANGED <<page_text, emails, child_links, parent_urls, idx, pc, parent_url, parent_domain,
                   visited_links, all_emails, child_links_all, collected,
                   output_rows>>

\* scrape_worker line 67: emails = scrape_page(driver, url).  An exception
\* that is no WebDriverException leaves scrape_worker before driver.quit()
\* and becomes the future's exception.
WorkerScrape(u) ==
    /\ u \in DOMAIN futures
    /\ futures[u].state = "running"
    /\ \E o \in Outcomes :
        /\ drivers' = [drivers EXCEPT ![ChildDriver(u)].gets = Append(@, o)]
        /\ futures' =
              IF o = "exc"
              THEN [futures EXCEPT ![u].state = "finished", ![u].exception = TRUE]
              ELSE [futures EXCEPT ![u].state = "scraped",
                                   ![u].result = scrape_page(u, o)]
    /\ UNCHANGED <<page_text, emails, child_links, parent_urls, idx, pc, parent_url, parent_domain,
                   visited_links, all_emails, child_links_all, work_queue,
                   collected, output_rows>>

\* A worker that follows the links of its page: it submits a task for
\* every href that has no task yet.
WorkerQuitFollowsLinks(u) ==
    /\ u \in DOMAIN futures
    /\ futures[u].state = "scraped"
    /\ drivers' = [drivers EXCEPT ![ChildDriver(u)].quits = @ + 1]
    /\ LET new == SelectSeq(Dedup(page_hrefs(u)),
                            LAMBDA h : h # <<>> /\ h \notin DOMAIN futures)
       IN  /\ futures' =
                 [x \in DOMAIN futures \cup Range(new) |->
                     IF x \in Range(new)
                     THEN [state |-> "pending", result |-> <<>>, exception |-> FALSE]
                     ELSE IF x = u THEN [futures[u] EXCEPT !.state = "finished"]
                     ELSE futures[x]]
           /\ work_queue' = work_queue \o new
    /\ UNCHANGED <<page_text, emails, child_links, parent_urls, idx, pc,
                   parent_url, parent_domain, visited_links, all_emails,
                   child_links_all, collected, output_rows>>

\* A worker that adds its emails to the global set itself before it
\* returns.
WorkerQuitMerges(u) ==
    /\ u \in DOMAIN futures
    /\ futures[u].state = "scraped"
    /\ drivers' = [drivers EXCEPT ![ChildDriver(u)].quits = @ + 1]
    /\ futures' = [futures EXCEPT ![u].state = "finished"]
    /\ all_emails' = all_emails \cup Range(futures[u].result)
    /\ UNCHANGED <<page_text, emails, child_links, parent_urls, idx, pc,
                   parent_url, parent_domain, visited_links, child_links_all,
                   work_queue, collected, output_rows>>

\* scrape_worker lines 68-69: driver.quit(); return emails
WorkerQuit(u) ==
    /\ u \in DOMAIN futures
    /\ futures[u].state = "scraped"
    /\ drivers' = [drivers EXCEPT ![ChildDriver(u)].quits = @ + 1]
    /\ futures' = [futures EXCEPT ![u].state = "finished"]
    /\ UNCHANGED <<page_text, emails, child_links, parent_urls, idx, pc, parent_url, parent_domain,
                   visited_links, all_emails, child_links_all, work_queue,
                   collected, output_rows>>

\* The merge of line 116 as an assignment instead of an update.
CollectOverwrites(u) ==
    IF futures[u].exception THEN all_emails ELSE Range(futures[u].result)

\* What the body of the as_completed loop does with a finished future:
\* future.result() raises the task's exception, which is caught and logged;
\* otherwise the emails are merged.
Collect(u) ==
    IF futures[u].exception
    THEN all_emails
    ELSE all_emails \cup Range(futures[u].result)

\* The as_completed loop without its try/except: the exception of a task
\* leaves the loop and ends the program.
MergeUncaught(u) ==
    /\ pc = "parallel"
    /\ Unsubmitted = {}
    /\ u \in DOMAIN futures \ collected
    /\ futures[u].state = "finished"
    /\ IF futures[u].exception
       THEN pc' = "crashed" /\ UNCHANGED <<all_emails, collected>>
       ELSE /\ all_emails' = Collect(u)
            /\ collected' = collected \cup {u}
            /\ UNCHANGED pc
    /\ UNCHANGED <<page_text, emails, child_links, parent_urls, idx, parent_url, parent_domain,
                   visited_links, child_links_all, drivers, work_queue,
                   futures, output_rows>>

\* Lines 111-119, one iteration: as_completed yields a finished future.
\* The loop starts when the dict of line 110 is complete.
Merge(u) ==
    /\ pc = "parallel"
    /\ Unsubmitted = {}
    /\ u \in DOMAIN futures \ collected
    /\ futures[u].state = "finished"
    /\ all_emails' = Collect(u)
    /\ collected' = collected \cup {u}
    /\ UNCHANGED <<page_text, emails, child_links, parent_urls, idx, pc, parent_url, parent_domain,
                   visited_links, child_links_all, drivers, work_queue,
                   futures, output_rows>>

\* A pool exit that waits for a first result, which an empty pool never has.
PoolExitAwaitsResult ==
    /\ pc = "parallel"
    /\ Unsubmitted = {}
    /\ collected = DOMAIN futures
    /\ collected # {}
    /\ pc' = "save"
    /\ UNCHANGED <<page_text, emails, child_links, parent_urls, idx, parent_url, parent_domain,
                   visited_links, all_emails, child_links_all, drivers,
                   work_queue, futures, collected, output_rows>>

\* A pool that is left without draining as_completed, as with
\* shutdown(wait=False): the save step starts when all tasks are submitted.
PoolExitWithoutWaiting ==
    /\ pc = "parallel"
    /\ Unsubmitted = {}
    /\ pc' = "save"
    /\ UNCHANGED <<page_text, emails, child_links, parent_urls, idx, parent_url,
                   parent_domain, visited_links, all_emails, child_links_all,
                   drivers, work_queue, futures, collected, output_rows>>

\* as_completed is exhausted when every future was yielded; the with block
\* then shuts the pool down.
PoolExit ==
    /\ pc = "parallel"
    /\ Unsubmitted = {}
    /\ collected = DOMAIN futures
    /\ pc' = "save"
    /\ UNCHANGED <<page_text, emails, child_links, parent_urls, idx, parent_url, parent_domain, visited_links,
                   all_emails, child_links_all, drivers, work_queue, futures,
                   collected, output_rows>>

\* Lines 122-126: the header, then the emails sorted.
Save ==
    /\ pc = "save"
    /\ output_rows' = <<<<"E", "m", "a", "i", "l">>>> \o sorted(all_emails)
    /\ pc' = "done"
    /\ UNCHANGED <<page_text, emails, child_links, parent_urls, idx, parent_url, parent_domain, visited_links,
                   all_emails, child_links_all, drivers, work_queue, futures,
                   collected>>

Next ==
    \/ SeedNormalize
    \/ SeedCreateDriver
    \/ SeedScrape
    \/ SeedDomain
    \/ SeedLinks
    \/ SeedQuit
    \/ Filter
    \/ \E u \in Links : Submit(u)
    \/ WorkerStart
    \/ \E u \in Links : WorkerScrape(u)
    \/ \E u \in Links : WorkerQuit(u)
    \/ \E u \in Links : Merge(u)
    \/ PoolExit
    \/ Save

Spec == Init /\ [][Next]_vars

\* The main thread and the pool threads keep running while they can.
FairSpec == Spec /\ WF_vars(Next)

TypeOK ==
    /\ pc \in {"loop", "create", "scrape", "domain", "links", "quit",
               "parallel", "save", "done", "crashed"}
    /\ idx \in 1..(Len(parent_urls) + 1)
    /\ \A d \in DOMAIN drivers : drivers[d].quits \in 0..1

\* ------------------------------------------------------------ what a run fetched
\* The URL seed i is fetched under.
SeedUrl(i) == NormalizeSeed(parent_urls[i])

Seeds == 1..Len(parent_urls)

\* The seeds whose iteration of the loop is complete.
SeedsProcessed ==
    {i \in Seeds : SeedDriver(i) \in DOMAIN drivers
                   /\ Len(drivers[SeedDriver(i)].gets) = 2
                   /\ drivers[SeedDriver(i)].quits = 1}

\* The emails on a page, from its source; none when the load failed.
EmailsOn(url, o) ==
    IF o = "ok" THEN Range(extract_emails(page_source(url))) ELSE {}

\* The hrefs of a page that qualify as links of a seed with host domain.
QualifyingHrefs(url, domain) ==
    {h \in Range(page_hrefs(url)) : h # <<>> /\ Contains(h, domain) /\ h # url}

\* The emails of the seed pages, by the outcome of each scrape.
SeedPhaseEmails ==
    UNION {EmailsOn(SeedUrl(i), drivers[SeedDriver(i)].gets[1]) : i \in Seeds}

\* The links found on the seed pages whose links step succeeded.
DiscoveredLinks ==
    UNION {QualifyingHrefs(SeedUrl(i), DomainOf(SeedUrl(i))) :
              i \in {j \in Seeds : drivers[SeedDriver(j)].gets[2] = "ok"}}

\* The discovered links that are no seed.
CrawlTargets == DiscoveredLinks \ {SeedUrl(i) : i \in Seeds}

\* The emails of the child pages, by the outcome of each task's scrape.
ChildPhaseEmails ==
    UNION {EmailsOn(u, drivers[ChildDriver(u)].gets[1]) : u \in CrawlTargets}

\* The rows of the output file after the header, as a set.
WrittenEmails == Range(Tail(output_rows))

\* ------------------------------------------------------------ claims
\* C1: whatever the order in which the child tasks were submitted, started,
\* finished and merged, the emails written are the union of the emails of
\* every seed page and of every discovered link that is no seed (a page
\* whose load failed has none), a function of the seeds, the pages and the
\* load outcomes alone; every such link was loaded by exactly one task.
C1_OutputIsUnionOfPages ==
    pc = "done" =>
        /\ \A u \in CrawlTargets :
              /\ ChildDriver(u) \in DOMAIN drivers
              /\ Len(drivers[ChildDriver(u)].gets) = 1
        /\ WrittenEmails = SeedPhaseEmails \cup ChildPhaseEmails

\* C1 witness: a finished run with two seeds and two tasks, with the emails
\* of both phases in the output.
C1_Witness ==
    /\ pc = "done"
    /\ Len(parent_urls) = 2
    /\ DOMAIN futures = {Url1, Url2}
    /\ WrittenEmails = {MailX, MailZ, MailW, MailXU}

\* C2: no task is submitted, and no task's session is created, for a URL
\* of the visited set.
C2_NoTaskForVisitedSeed ==
    /\ DOMAIN futures \cap visited_links = {}
    /\ \A u \in visited_links : ChildDriver(u) \notin DOMAIN drivers

\* C2 witness: tasks are submitted although a seed page linked to a seed
\* that came later in the input.
C2_Witness ==
    /\ DOMAIN futures # {}
    /\ \E i \in Seeds : \E j \in Seeds :
          /\ i < j
          /\ drivers[SeedDriver(i)].gets[2] = "ok"
          /\ SeedUrl(j) \in QualifyingHrefs(SeedUrl(i), DomainOf(SeedUrl(i)))

\* The tasks whose scrape failed, with either kind of exception.
FailedTasks ==
    {u \in DOMAIN futures : ChildDriver(u) \in DOMAIN drivers
                            /\ Len(drivers[ChildDriver(u)].gets) = 1
                            /\ drivers[ChildDriver(u)].gets[1] # "ok"}

\* The tasks whose scrape succeeded.
SucceededTasks ==
    {u \in DOMAIN futures : ChildDriver(u) \in DOMAIN drivers
                            /\ drivers[ChildDriver(u)].gets = <<"ok">>}

\* While and after tasks fail, the run is in the pool or past it; a task
\* that succeeded holds its page's emails as its result; past the pool
\* every task has finished and was handled, and the emails are those of
\* the seed phase and of the tasks that succeeded, nothing of the others.
C3_SiblingsKept ==
    /\ DOMAIN futures # {} => pc \in {"parallel", "save", "done"}
    /\ \A u \in SucceededTasks :
          futures[u].state = "finished" =>
              /\ ~futures[u].exception
              /\ Range(futures[u].result) = EmailsOn(u, "ok")
    /\ pc \in {"save", "done"} =>
          /\ \A u \in DOMAIN futures :
                futures[u].state = "finished" /\ u \in collected
          /\ DOMAIN futures = FailedTasks \cup SucceededTasks
          /\ all_emails =
                SeedPhaseEmails \cup UNION {EmailsOn(u, "ok") : u \in SucceededTasks}

\* C3: when child tasks fail, with a WebDriverException or with any other
\* exception, the other tasks run to completion and their emails are
\* merged, the failed tasks add nothing, and the run reaches the end of the
\* save step.
C3_FailureIsolation ==
    /\ []C3_SiblingsKept
    /\ (pc = "parallel" /\ FailedTasks # {}) ~> (pc = "done")

\* C3 witness: a finished run in which one task raised an exception that
\* is no WebDriverException, one raised a WebDriverException and one
\* succeeded, whose emails are in the output.
C3_Witness ==
    /\ pc = "done"
    /\ \E u \in DOMAIN futures : futures[u].exception
    /\ \E u \in FailedTasks : ~futures[u].exception
    /\ \E u \in SucceededTasks :
          EmailsOn(u, "ok") # {} /\ EmailsOn(u, "ok") \subseteq WrittenEmails

\* A seed line that carries a scheme.
HasScheme(line) == Contains(line, <<":", "/", "/">>)

\* C4: with no failure other than navigation and render failures (every
\* load ends normally or with a WebDriverException), the run never aborts,
\* and what it writes is what was accumulated.
C4_NavFailuresNeverAbort ==
    (\A d \in DOMAIN drivers : "exc" \notin Range(drivers[d].gets)) =>
        /\ pc # "crashed"
        /\ pc = "done" => WrittenEmails = all_emails

\* C5: the seed being processed is its line, prefixed with http:// when
\* the line has no scheme and unchanged when it has one; it is marked
\* visited; and the run stops on no seed line: only an exception raised by
\* the browser ends it.
C5_SeedsRepairedNeverRejected ==
    /\ pc \in {"create", "scrape", "domain", "links", "quit"} =>
          /\ parent_url = IF HasScheme(parent_urls[idx])
                          THEN parent_urls[idx]
                          ELSE HTTP \o parent_urls[idx]
          /\ parent_url \in visited_links
    /\ pc \in {"links", "quit"} => parent_domain = DomainOf(parent_url)
    /\ pc = "crashed" => "exc" \in Range(drivers[SeedDriver(idx)].gets)

\* C6: no session is quit twice, the session of a task that has finished
\* is closed, and no session is open when the run has ended.
C6_EverySessionClosedOnce ==
    /\ \A d \in DOMAIN drivers : drivers[d].quits <= 1
    /\ \A u \in DOMAIN futures :
          futures[u].state = "finished" => drivers[ChildDriver(u)].quits = 1
    /\ pc \in {"done", "crashed"} => OpenDrivers = {}

\* C7: when a task has been submitted or a task's session exists, the seed
\* loop is over and every seed was scraped, had its links collected and
\* had its session closed.
C7_BarrierBetweenPhases ==
    (DOMAIN futures # {} \/ \E d \in DOMAIN drivers : d[1] = "child") =>
        /\ pc \in {"parallel", "save", "done"}
        /\ idx = Len(parent_urls) + 1
        /\ SeedsProcessed = Seeds

\* C7 witness: a task is running after a seed phase of two seeds.
C7_Witness ==
    /\ Len(parent_urls) = 2
    /\ \E u \in DOMAIN futures : futures[u].state = "running"

\* C8: the sessions open at the same time are at most max_workers.
C8_OpenSessionsBounded == Cardinality(OpenDrivers) <= max_workers

\* C9: the links returned for a seed are the non-empty hrefs of its page
\* that contain the seed's domain and differ from the seed URL, each once,
\* and every one of them is on the seed's domain.
C9_ChildLinksOfSeedDomain ==
    (pc = "quit" /\ drivers[SeedDriver(idx)].gets[2] = "ok") =>
        /\ Range(child_links) = QualifyingHrefs(parent_url, parent_domain)
        /\ Cardinality(Range(child_links)) = Len(child_links)
        /\ \A l \in Range(child_links) : DomainOf(l) = parent_domain

\* The seed phase left nothing to crawl.
NothingToCrawl == pc \in {"parallel", "save", "done"} /\ child_links_all = <<>>

\* With nothing to crawl no task is submitted or queued, no session other
\* than the seeds' exists, and the output is the header and the emails of
\* the seed phase.
C10_NoChildWork ==
    NothingToCrawl =>
        /\ DOMAIN futures = {}
        /\ work_queue = <<>>
        /\ \A d \in DOMAIN drivers : d[1] = "seed"
        /\ pc = "done" =>
              /\ Head(output_rows) = <<"E", "m", "a", "i", "l">>
              /\ WrittenEmails = SeedPhaseEmails

\* C10: when no seed page yields a link that is no seed, the pool runs no
\* task and creates no session, and the run ends with the emails of the
\* seed phase written.
C10_EmptyChildPhase ==
    /\ []C10_NoChildWork
    /\ NothingToCrawl ~> (pc = "done")

\* C10 witness: a finished run whose only discovered link was a visited
\* seed, with the seed pages' emails written.
C10_Witness ==
    /\ pc = "done"
    /\ child_links_all = <<>>
    /\ DiscoveredLinks # {}
    /\ WrittenEmails # {}

\* C11: in the file written, each row after the header is strictly less
\* than the next (so the rows are in non-decreasing order and no row
\* repeats), and the rows are the merged emails, every one of them: emails
\* that differ only in case are separate rows.
C11_RowsSortedDistinct ==
    pc = "done" =>
        /\ \A i \in 2..(Len(output_rows) - 1) :
              StrLess(output_rows[i], output_rows[i + 1])
        /\ WrittenEmails = all_emails
        /\ Len(output_rows) - 1 = Cardinality(all_emails)

\* C11 witness: X@y.cc and x@y.cc are both written, the upper-case one
\* first, in a file of four emails.
C11_Witness ==
    /\ pc = "done"
    /\ output_rows = <<<<"E", "m", "a", "i", "l">>, MailXU, MailW, MailX, MailZ>>

\* ------------------------------------------------------------ extract_emails alone
\* The characters of the texts tried: a letter, a digit, the two
\* punctuation marks of the pattern and a separator outside its classes.
TextChars == {"a", "1", "@", ".", ","}

Texts == UNION {[1..n -> TextChars] : n \in 0..MaxTextLen}

\* The lists of a list of lists, joined.
RECURSIVE Flatten(_)
Flatten(ls) == IF ls = <<>> THEN <<>> ELSE Head(ls) \o Flatten(Tail(ls))

ExtractInit ==
    /\ page_text \in Texts
    /\ emails = <<>>
    /\ pc = "extract"
    /\ parent_urls = <<>>
    /\ idx = 1
    /\ parent_url = <<>>
    /\ parent_domain = <<>>
    /\ visited_links = {}
    /\ all_emails = {}
    /\ child_links = <<>>
    /\ child_links_all = <<>>
    /\ drivers = <<>>
    /\ work_queue = <<>>
    /\ futures = <<>>
    /\ collected = {}
    /\ output_rows = <<>>

\* emails = extract_emails(text), folded into the set as the callers do.
Extract ==
    /\ pc = "extract"
    /\ emails' = extract_emails(page_text)
    /\ all_emails' = Range(extract_emails(page_text))
    /\ pc' = "extracted"
    /\ UNCHANGED <<page_text, parent_urls, idx, parent_url, parent_domain,
                   visited_links, child_links, child_links_all, drivers,
                   work_queue, futures, collected, output_rows>>

\* extract_emails again, on each match of the first extraction.
ReExtract ==
    /\ pc = "extracted"
    /\ emails' = Flatten([i \in 1..Len(emails) |-> extract_emails(emails[i])])
    /\ pc' = "reextracted"
    /\ UNCHANGED <<page_text, parent_urls, idx, parent_url, parent_domain,
                   visited_links, all_emails, child_links, child_links_all,
                   drivers, work_queue, futures, collected, output_rows>>

ExtractNext == Extract \/ ReExtract

ExtractSpec == ExtractInit /\ [][ExtractNext]_vars

\* localpart@domain.tld: a non-empty local part of local characters, "@",
\* a non-empty domain of domain characters, ".", two or more letters.
IsEmailShape(m) ==
    \E at \in 2..Len(m) : \E dot \in (at + 2)..(Len(m) - 2) :
        /\ m[at] = "@"
        /\ m[dot] = "."
        /\ \A k \in 1..(at - 1) : m[k] \in LocalChars
        /\ \A k \in (at + 1)..(dot - 1) : m[k] \in DomainChars
        /\ \A k \in (dot + 1)..Len(m) : m[k] \in Alpha

\* C12: every string extract_emails returns, for every text, has the shape
\* localpart@domain.tld with a top-level domain of two or more letters.
C12_MatchesHaveEmailShape ==
    pc \in {"extracted", "reextracted"} =>
        \A i \in 1..Len(emails) : IsEmailShape(emails[i])

\* C12 witness: a match cut out of a longer text that goes on with a digit
\* or a one-letter label after the top-level domain.
C12_Witness ==
    /\ pc = "extracted"
    /\ Len(emails) = 1
    /\ Len(emails[1]) < Len(page_text)
    /\ page_text[Len(page_text)] \in {"1", "a"}

\* C13: extracting again from the matches of a text gives the same set of
\* matches.
C13_ReExtractionIdempotent ==
    pc = "reextracted" => Range(emails) = all_emails

\* C13 witness: a re-extraction of a match that was found after a
\* separator in its text.
C13_Witness ==
    /\ pc = "reextracted"
    /\ emails # <<>>
    /\ page_text[1] = ","

\* C14: the session of a seed loads the seed URL at most once.
C14_SeedLoadedOnce ==
    \A d \in DOMAIN drivers : d[1] = "seed" => Len(drivers[d].gets) <= 1

\* A step of a pool thread.
WorkerStep ==
    \/ WorkerStart
    \/ \E u \in Links : WorkerScrape(u)
    \/ \E u \in Links : WorkerQuit(u)

\* C15: no step of a pool thread changes the global email set; the set
\* only grows; and a step that changes it in the pool phase is the main
\* thread handling exactly one finished future, after which the set holds
\* what it held plus that future's result, so no update is lost.
C15_MergesSerialized ==
    [][/\ WorkerStep => all_emails' = all_emails
       /\ all_emails \subseteq all_emails'
       /\ (pc = "parallel" /\ all_emails' # all_emails) =>
             \E u \in DOMAIN futures \ collected :
                 /\ collected' = collected \cup {u}
                 /\ futures[u].state = "finished"
                 /\ all_emails' = all_emails \cup Range(futures[u].result)]_vars

\* C15 witness: a result has been merged while another task is still
\* running and a third, finished with emails, waits to be merged.
C15_Witness ==
    /\ pc = "parallel"
    /\ \E u \in collected : Range(futures[u].result) # {}
    /\ \E u \in DOMAIN futures : futures[u].state \in {"running", "scraped"}
    /\ \E u \in DOMAIN futures \ collected :
          futures[u].state = "finished" /\ futures[u].result # <<>>

\* C16: the links to crawl hold no link twice and are the discovered links
\* that are no seed; tasks exist only for them, none is queued twice, no
\* task loads its page twice, and when the pool is left there is one task
\* per link, each with one load.
C16_OneTaskPerDistinctLink ==
    pc \in {"parallel", "save", "done"} =>
        /\ Len(child_links_all) = Cardinality(Range(child_links_all))
        /\ Range(child_links_all) = CrawlTargets
        /\ DOMAIN futures \subseteq Range(child_links_all)
        /\ Len(work_queue) = Cardinality(Range(work_queue))
        /\ \A u \in DOMAIN futures :
              ChildDriver(u) \in DOMAIN drivers =>
                  Len(drivers[ChildDriver(u)].gets) <= 1
        /\ pc \in {"save", "done"} =>
              /\ Cardinality(DOMAIN futures) = Len(child_links_all)
              /\ \A u \in DOMAIN futures : Len(drivers[ChildDriver(u)].gets) = 1

\* C16 witness: http://a/1, twice on the page of a seed that is listed
\* twice, was loaded by one task.
C16_Witness ==
    /\ pc = "done"
    /\ parent_urls = <<LineBare, LineBare>>
    /\ drivers[SeedDriver(1)].gets[2] = "ok"
    /\ drivers[SeedDriver(2)].gets[2] = "ok"
    /\ Len(drivers[ChildDriver(Url1)].gets) = 1

\* C17: every task, and every session of a task, is for a link found on a
\* seed page, and a task's session loads one page at most: what is
\* fetched is a seed or a link of a seed page, never a link found only on
\* a child page.
C17_OneHopOnly ==
    /\ \A u \in DOMAIN futures : u \in DiscoveredLinks
    /\ \A d \in DOMAIN drivers :
          d[1] = "child" =>
              /\ d[2] \in DiscoveredLinks
              /\ drivers[d].url = d[2]
              /\ Len(drivers[d].gets) <= 1
    /\ \A d \in DOMAIN drivers : d[1] = "seed" => drivers[d].url = SeedUrl(d[2])

\* C17 witness: the page http://a/1, which links to http://a/9, was
\* scraped by a task and the run ended without a fetch of http://a/9.
C17_Witness ==
    /\ pc = "done"
    /\ Url9 \in Range(page_hrefs(Url1))
    /\ ChildDriver(Url1) \in DOMAIN drivers
    /\ drivers[ChildDriver(Url1)].gets = <<"ok">>
    /\ ChildDriver(Url9) \notin DOMAIN drivers

\* C18: when the save step is reached or rows are written, every link has
\* been submitted, no task is queued or running, every future is finished
\* and was handled by the as_completed loop, and the result of every task
\* that returned is in the email set.
C18_SaveAfterAllTasks ==
    (pc \in {"save", "done"} \/ output_rows # <<>>) =>
        /\ Unsubmitted = {}
        /\ work_queue = <<>>
        /\ Running = {}
        /\ collected = DOMAIN futures
        /\ \A u \in DOMAIN futures :
              /\ futures[u].state = "finished"
              /\ ~futures[u].exception => Range(futures[u].result) \subseteq all_emails

\* C18 witness: the file is written after three tasks, one of which raised.
C18_Witness ==
    /\ pc = "done"
    /\ Cardinality(DOMAIN futures) = 3
    /\ \E u \in DOMAIN futures : futures[u].exception
    /\ \E u \in DOMAIN futures : futures[u].result # <<>>

\* The outcomes of the loads of seed i so far.
SeedGets(i) ==
    IF SeedDriver(i) \in DOMAIN drivers THEN drivers[SeedDriver(i)].gets ELSE <<>>

\* C19: the links step runs for every seed whose scrape did not end the
\* run, also after a scrape that failed, and returns the qualifying hrefs
\* when it succeeds; the links of a seed whose scrape failed are crawled;
\* and the emails of a seed whose scrape succeeded are in the email set
\* whatever the links step did afterwards.
C19_ScrapeAndLinksIndependent ==
    /\ pc = "quit" =>
          /\ Len(SeedGets(idx)) = 2
          /\ SeedGets(idx)[2] = "ok" =>
                Range(child_links) = QualifyingHrefs(parent_url, parent_domain)
          /\ Range(child_links) \subseteq Range(child_links_all)
    /\ pc \in {"save", "done"} =>
          \A i \in Seeds :
              SeedGets(i) = <<"wde", "ok">> =>
                  \A l \in QualifyingHrefs(SeedUrl(i), DomainOf(SeedUrl(i)))
                             \ visited_links :
                      /\ ChildDriver(l) \in DOMAIN drivers
                      /\ Len(drivers[ChildDriver(l)].gets) = 1
    /\ \A i \in Seeds :
          (Len(SeedGets(i)) >= 1 /\ SeedGets(i)[1] = "ok") =>
              EmailsOn(SeedUrl(i), "ok") \subseteq all_emails

\* C19 witness: the scrape of the first seed failed and its links step
\* succeeded, the scrape of the second succeeded and its links step failed;
\* the file holds the second seed's email and those of the first seed's
\* links.
C19_Witness ==
    /\ pc = "done"
    /\ parent_urls = <<LineBare, LineHttp>>
    /\ SeedGets(1) = <<"wde", "ok">>
    /\ SeedGets(2) = <<"ok", "wde">>
    /\ WrittenEmails = {MailZ, MailW, MailXU}

====
